---- MODULE Spec2Model ----
(***************************************************************************)
(* django-publish: the draft/public publish engine of publish/models.py    *)
(* (Publishable.save, .delete, .publish) and the bulk admin actions of     *)
(* publish/actions.py (publish_selected, unpublish_selected).              *)
(*                                                                         *)
(* One database table of one concrete Publishable type is modelled: rows   *)
(* holds the columns of every stored entity by primary key, links the      *)
(* many-to-many relations of every stored entity.  Publishable.publish is  *)
(* recursive; it is modelled as a call stack of frames, each holding the   *)
(* in-memory instances the Python code holds (self, public_version) and    *)
(* its position in the method.                                             *)
(***************************************************************************)
EXTENDS Integers, Sequences, FiniteSets, TLC

VARIABLES
    schema,   \* the concrete type's _meta: column fields, many-to-many fields, PublishMeta
    rows,     \* the table: primary key -> stored columns
    links,    \* the many-to-many through tables: primary key -> field -> linked keys
    nextId,   \* the table's auto-increment primary key
    stack,    \* the call stack of Publishable.publish frames (top is the last)
    sets,     \* the already_published set objects of the running call tree
    call,     \* the top-level operation that runs or ran last, and how it ended
    queue,    \* drafts a confirmed publish_selected has still to publish
    admin,    \* the admin action that runs or ran last, and its response
    logged,   \* what the last admin action passed to modeladmin.log_publication
    edits,    \* edits user code has made so far
    waiting   \* the other request while this one runs: its stack, sets, queue, call, admin

vars == <<schema, rows, links, nextId, stack, sets, call, queue, admin, logged, edits, waiting>>

----------------------------------------------------------------------------
(* Bounds of the model *)

NumDrafts == 2      \* drafts stored in the initial state
MaxTitle  == 2      \* distinct values of the scalar field
NumSites  == 2      \* rows of the plain (non-Publishable) related table
MaxDepth  == 6      \* frames the interpreter allows before RecursionError
MaxEdits  == 1      \* saves of an edited draft in one behaviour
MaxRequests == 1    \* admin requests in one behaviour
MaxId     == 8      \* primary keys the table can hand out

(* Program constants *)

PUBLISH_DEFAULT == 0
PUBLISH_CHANGED == 1
PUBLISH_DELETE  == 2

None    == 0        \* Python None / SQL NULL in a reference
Unsaved == -1       \* an instance that was never saved (its pk is None)

DraftIds == 1..NumDrafts
Ids      == 1..MaxId
Titles   == 1..MaxTitle
SiteIds  == 1..NumSites
DefaultTitle == 0   \* the column default of a freshly constructed instance

----------------------------------------------------------------------------
(* The type's metadata *)

\* Publishable's own columns, first in _meta.fields of every concrete type.
BaseFields == <<"id", "is_public", "publish_state", "public">>

\* Publishable.PublishMeta.publish_exclude_fields
publish_exclude_fields == {"id", "is_public", "publish_state", "public"}

\* self._meta.fields
MetaFields(sch) == BaseFields \o sch.fields

\* (mutant) the loop over the MRO left out: only the base class's list
excluded_fields_BaseOnly(sch) == publish_exclude_fields

\* PublishMeta.excluded_fields(): the lists of every class of the MRO.
excluded_fields(sch) == sch.exclude \cup publish_exclude_fields

\* isinstance(field, RelatedField) and issubclass(field.rel.to, Publishable)
PublishableFk(f) == f \in {"public", "parent", "other"}

\* issubclass(field_object.rel.to, Publishable) for a many-to-many field
PublishableM2M(name) == name = "authors"

M2MNames == {"authors", "sites", "log"}

SchemaFk      == [fields |-> <<"title", "parent">>, m2m |-> <<>>, exclude |-> {}]
SchemaAuthors == [fields |-> <<"title">>, m2m |-> <<"authors">>, exclude |-> {}]
SchemaSites   == [fields |-> <<"title">>, m2m |-> <<"sites", "log">>, exclude |-> {"log"}]
SchemaDiamond == [fields |-> <<"parent", "other">>, m2m |-> <<>>, exclude |-> {}]
SchemaMixed   == [fields |-> <<"parent">>, m2m |-> <<"authors">>, exclude |-> {}]

Range(s) == {s[k] : k \in DOMAIN s}

----------------------------------------------------------------------------
(* Rows and instances *)

NoLinks == [name \in M2MNames |-> {}]

\* (mutant) is_public=True left out of the constructor call of line 85
NewPublic_AsDraft ==
    [pk |-> None, is_public |-> FALSE, publish_state |-> PUBLISH_DEFAULT,
     public |-> None, title |-> DefaultTitle, parent |-> None, other |-> None]

\* self.__class__(is_public=True): a new instance with the column defaults.
NewPublic ==
    [pk |-> None, is_public |-> TRUE, publish_state |-> PUBLISH_DEFAULT,
     public |-> None, title |-> DefaultTitle, parent |-> None, other |-> None]

NewDraft(pk, st, t, p, o) ==
    [pk |-> pk, is_public |-> FALSE, publish_state |-> st,
     public |-> None, title |-> t, parent |-> p, other |-> o]

\* The table with instance inst written to its row (INSERT or UPDATE).
Store(tbl, inst) ==
    [k \in DOMAIN tbl \cup {inst.pk} |-> IF k = inst.pk THEN inst ELSE tbl[k]]

\* A reference as the column stores it: an instance without pk stores NULL.
AsColumn(v) == IF v = Unsaved THEN None ELSE v

RECURSIVE SetToSeq(_)
SetToSeq(S) ==
    IF S = {} THEN <<>>
    ELSE LET m == CHOOSE x \in S : \A y \in S : x <= y
         IN  <<m>> \o SetToSeq(S \ {m})

IsDraft(k)  == k \in DOMAIN rows /\ ~rows[k].is_public
IsPublic(k) == k \in DOMAIN rows /\ rows[k].is_public

Idle == stack = <<>> /\ queue = <<>>

\* The instance a descriptor or a queryset loads from the table.
Load(k) == rows[k]

----------------------------------------------------------------------------
(* Publishable.save and Publishable.delete, models.py lines 57-67 *)

\* (mutant) lines 58-59 left out: save never marks the draft
save_NeverMarks(inst, mark_changed) == inst

\* lines 57-60: the instance as save(mark_changed) stores it
save(inst, mark_changed) ==
    IF ~inst.is_public /\ mark_changed
    THEN [inst EXCEPT !.publish_state = PUBLISH_CHANGED]
    ELSE inst

\* The columns of the type that hold a reference to a row of the same table.
RefColumns == {"public", "parent", "other"}

\* models.Model.delete(): the rows Django's collector removes with the rows
\* of gone, every ForeignKey and OneToOneField of the type being on_delete
\* CASCADE (the default of the fields as declared, lines 39 and 164).
RECURSIVE Collect(_, _)
Collect(tbl, gone) ==
    LET more == {k \in DOMAIN tbl \ gone : \E c \in RefColumns : tbl[k][c] \in gone}
    IN  IF more = {} THEN gone ELSE Collect(tbl, gone \cup more)

\* lines 62-67
delete(k) ==
    LET marked == IF rows[k].public # None
                  THEN Store(rows, save([Load(rows[k].public) EXCEPT
                                             !.publish_state = PUBLISH_DELETE], TRUE))
                  ELSE rows
        gone   == Collect(marked, {k})
    IN  /\ rows' = [r \in DOMAIN marked \ gone |-> marked[r]]
        /\ links' = [r \in DOMAIN marked \ gone |->
                        [name \in M2MNames |->
                            IF name = "authors" THEN links[r][name] \ gone
                            ELSE links[r][name]]]

----------------------------------------------------------------------------
(* Publishable.publish: frames *)

\* A frame of publish(self, already_published): self and public_version are
\* the in-memory instances; ap names the already_published set object.
Frame(inst, ap) ==
    [self |-> inst.pk, me |-> inst, ap |-> ap, pv |-> NewPublic, pc |-> "enter",
     i |-> 1, j |-> 1, objs |-> <<>>, pubs |-> <<>>, ret |-> None]

Top == stack[Len(stack)]

SetTop(f) == [stack EXCEPT ![Len(stack)] = f]

\* The caller's frame after the callee returned v: line 98-100 assigns the
\* value to the field of public_version, line 122 collects it in public_objs.
Resume(c, v) ==
    IF c.pc = "fields"
    THEN [c EXCEPT !.pv = [c.pv EXCEPT ![MetaFields(schema)[c.i]] = AsColumn(v)],
                   !.i = c.i + 1]
    ELSE [c EXCEPT !.pubs = Append(c.pubs, v), !.objs = Tail(c.objs)]

\* An exception leaves publish and every caller: no frame handles it.
Raise(kind) ==
    /\ stack' = <<>>
    /\ queue' = <<>>
    /\ call' = [call EXCEPT !.status = kind]
    /\ admin' = IF admin.response = "running"
                THEN [admin EXCEPT !.response = kind] ELSE admin

\* A call of inst.publish(already_published = sets[ap]) from the top frame.
Invoke(inst, ap, heap) ==
    IF Len(stack) >= MaxDepth
    THEN /\ Raise("RecursionError")
         /\ sets' = sets
    ELSE /\ stack' = Append(stack, Frame(inst, ap))
         /\ sets' = heap
         /\ UNCHANGED <<call, queue, admin>>

----------------------------------------------------------------------------
(* Publishable.publish, models.py lines 69-128 *)

\* queryset.select_for_update(), actions.py lines 98 and 149: the rows of the
\* batch are locked while the request that selected them runs.
HeldLocks(a) == IF a.response = "running" THEN a.batch ELSE {}

\* (mutant) the check of line 70 left out
CalledOnPublic_Unchecked(f) == FALSE

\* line 70
CalledOnPublic(f) == f.me.is_public

\* (mutant) the assertion of line 73 left out
NotSaved_Unchecked(f) == FALSE

\* line 73: the assertion fails for an instance without primary key
NotSaved(f) == f.me.pk = None

\* line 79
InAlreadyPublished(f) == f.self \in sets[f.ap]

\* (mutant) the test of line 87 left out: the fields are copied on every call
NeedsFieldCopy_Always(f) == TRUE

\* line 87
NeedsFieldCopy(f) == f.me.publish_state = PUBLISH_CHANGED

\* (mutant) line 83 left out: every call makes a new public instance
PublicVersion_AlwaysNew(f) == NewPublic

\* lines 83-85: self.public, or a new unsaved public instance
PublicVersion(f) == IF f.me.public # None THEN Load(f.me.public) ELSE NewPublic

\* line 117: list(m2m_manager.all()), the instances as stored at that moment
Instances(k, name) ==
    LET ks == SetToSeq(links[k][name])
    IN  [n \in 1..Len(ks) |-> Load(ks[n])]

\* line 122: the already_published the call for a linked object works on
RelatedSet(f) == Len(sets) + 1

RelatedHeap(f) == Append(sets, {})

\* (mutant) lines 124-125 left out: no stale link is removed
Synced_KeepsStale(current, pks) == current

\* line 124-125: the mirror's links that stay after remove(*old_objs)
Synced(current, pks) == current \cap pks

\* (mutant) line 128 returns self, the draft
ReturnValue_Self(f) == f.self

\* line 128: public_version (an instance without pk when it was never saved)
ReturnValue(f) ==
    IF f.pc = "done" THEN f.ret
    ELSE IF f.pv.pk = None THEN Unsaved ELSE f.pv.pk

\* lines 70-87: the checks on entry, the cycle guard, public_version
PublishEnter ==
    /\ stack # <<>> /\ Top.pc = "enter"
    /\ IF CalledOnPublic(Top)
       THEN /\ Raise("ValueError")
            /\ UNCHANGED <<rows, links, nextId, sets, logged, schema, edits, waiting>>
       ELSE IF NotSaved(Top)
       THEN /\ Raise("AssertionError")
            /\ UNCHANGED <<rows, links, nextId, sets, logged, schema, edits, waiting>>
       ELSE /\ IF InAlreadyPublished(Top)
               THEN /\ stack' = SetTop([Top EXCEPT !.pc = "done", !.ret = Top.me.public])
                    /\ UNCHANGED <<sets, call>>
               ELSE /\ sets' = [sets EXCEPT ![Top.ap] = @ \cup {Top.self}]
                    /\ stack' = SetTop([Top EXCEPT
                                   !.pv = PublicVersion(Top),
                                   !.pc = IF NeedsFieldCopy(Top) THEN "fields" ELSE "m2m"])
                    /\ call' = [call EXCEPT !.bodies[Top.self] = @ + 1]
            /\ UNCHANGED <<rows, links, nextId, queue, admin, logged, schema, edits, waiting>>

\* lines 89-100: one field of self._meta.fields
CopyField ==
    /\ stack # <<>> /\ Top.pc = "fields" /\ Top.i <= Len(MetaFields(schema))
    /\ LET f     == MetaFields(schema)[Top.i]
           value == Top.me[f]
       IN  IF f \in excluded_fields(schema)
           THEN /\ stack' = SetTop([Top EXCEPT !.i = Top.i + 1])
                /\ UNCHANGED <<sets, call, queue, admin>>
           ELSE IF PublishableFk(f) /\ value # None
           THEN Invoke(Load(value), Top.ap, sets)
           ELSE /\ stack' = SetTop([Top EXCEPT !.pv = [Top.pv EXCEPT ![f] = value],
                                               !.i = Top.i + 1])
                /\ UNCHANGED <<sets, call, queue, admin>>
    /\ UNCHANGED <<rows, links, nextId, logged, schema, edits, waiting>>

\* lines 104-107: public_version.save(), self.public, self.publish_state,
\* self.save(mark_changed=False)
SavePublic ==
    /\ stack # <<>> /\ Top.pc = "fields" /\ Top.i > Len(MetaFields(schema))
    /\ LET pk == IF Top.pv.pk = None THEN nextId ELSE Top.pv.pk
           pv == save([Top.pv EXCEPT !.pk = pk], TRUE)
           me == save([Top.me EXCEPT !.public = pk, !.publish_state = PUBLISH_DEFAULT],
                      FALSE)
       IN  /\ pk \in Ids
           /\ {pk, me.pk} \cap HeldLocks(waiting.admin) = {}
           /\ rows' = Store(Store(rows, pv), me)
           /\ links' = [k \in DOMAIN links \cup {pk} |->
                            IF k \in DOMAIN links THEN links[k] ELSE NoLinks]
           /\ nextId' = IF Top.pv.pk = None THEN nextId + 1 ELSE nextId
           /\ stack' = SetTop([Top EXCEPT !.pv = pv, !.me = me, !.pc = "m2m"])
           /\ call' = [call EXCEPT !.copies[Top.self] = @ + 1,
                                   !.made[Top.self] = IF Top.pv.pk = None THEN @ + 1 ELSE @]
    /\ UNCHANGED <<sets, queue, admin, logged, schema, edits, waiting>>

\* lines 110-117: the next many-to-many field; its managers; public_objs
CopyM2M ==
    /\ stack # <<>> /\ Top.pc = "m2m" /\ Top.j <= Len(schema.m2m)
    /\ LET name == schema.m2m[Top.j]
       IN  IF name \in excluded_fields(schema)
           THEN /\ stack' = SetTop([Top EXCEPT !.j = Top.j + 1])
                /\ UNCHANGED <<call, queue, admin>>
           ELSE IF Top.pv.pk = None
           THEN Raise("ValueError: no primary key")
           ELSE /\ stack' = SetTop([Top EXCEPT
                        !.pc = "related",
                        !.objs = IF PublishableM2M(name) THEN Instances(Top.self, name) ELSE <<>>,
                        !.pubs = IF PublishableM2M(name) THEN <<>>
                                 ELSE SetToSeq(links[Top.self][name])])
                /\ UNCHANGED <<call, queue, admin>>
    /\ UNCHANGED <<rows, links, nextId, sets, logged, schema, edits, waiting>>

\* line 122: p.publish() for the next p of public_objs; the call passes no
\* already_published, so the callee makes a set of its own (lines 76-77).
PublishRelated ==
    /\ stack # <<>> /\ Top.pc = "related" /\ Top.objs # <<>>
    /\ Invoke(Head(Top.objs), RelatedSet(Top), RelatedHeap(Top))
    /\ UNCHANGED <<rows, links, nextId, logged, schema, edits, waiting>>

\* lines 124-126: remove the links not in public_objs, add public_objs
SyncM2M ==
    /\ stack # <<>> /\ Top.pc = "related" /\ Top.objs = <<>>
    /\ LET name == schema.m2m[Top.j]
           pks  == {AsColumn(v) : v \in Range(Top.pubs)}
           kept == [links EXCEPT ![Top.pv.pk][name] = Synced(@, pks)]
       IN  IF Unsaved \in Range(Top.pubs)
           THEN /\ links' = kept
                /\ Raise("ValueError: no primary key")
           ELSE /\ links' = [kept EXCEPT ![Top.pv.pk][name] = @ \cup pks]
                /\ stack' = SetTop([Top EXCEPT !.pc = "m2m", !.j = Top.j + 1])
                /\ UNCHANGED <<call, queue, admin>>
    /\ UNCHANGED <<rows, nextId, sets, logged, schema, edits, waiting>>

\* line 128 (and line 80): the frame returns; its caller goes on, or the
\* top-level call has returned.
PublishReturn ==
    /\ stack # <<>>
    /\ \/ Top.pc = "done"
       \/ Top.pc = "m2m" /\ Top.j > Len(schema.m2m)
    /\ LET v    == ReturnValue(Top)
           rest == SubSeq(stack, 1, Len(stack) - 1)
       IN  IF rest = <<>>
           THEN /\ stack' = <<>>
                /\ call' = [call EXCEPT !.status = "returned", !.ret = v]
                /\ admin' = IF admin.response = "running" /\ queue = <<>>
                            THEN [admin EXCEPT !.response = "done"] ELSE admin
           ELSE /\ stack' = [rest EXCEPT ![Len(rest)] = Resume(@, v)]
                /\ UNCHANGED <<call, admin>>
    /\ UNCHANGED <<rows, links, nextId, sets, queue, logged, schema, edits, waiting>>

\* No publish call has run since the last change by user code.
NoCall ==
    [op |-> "none", target |-> None, status |-> "none", ret |-> None,
     entry |-> NewPublic, before |-> <<>>, linked |-> <<>>, given |-> {},
     mark_changed |-> TRUE, copies |-> [k \in Ids |-> 0], made |-> [k \in Ids |-> 0],
     bodies |-> [k \in Ids |-> 0]]

\* No admin action has run yet.
NoAdmin ==
    [n |-> 0, action |-> "none", batch |-> {}, post |-> FALSE, all_published |-> {},
     perms_needed |-> {}, protected |-> {}, response |-> "none"]

\* The other request before it has begun.
NoContext ==
    [stack |-> <<>>, sets |-> <<>>, queue |-> <<>>, call |-> NoCall, admin |-> NoAdmin]

\* A top-level call e.publish(already_published) by user code; given is the
\* caller's set (empty for the default None, lines 76-77).
NewCall(op, e, given) ==
    [op |-> op, target |-> e, status |-> "running", ret |-> None,
     entry |-> rows[e], before |-> rows, linked |-> links, given |-> given,
     mark_changed |-> TRUE, copies |-> [k \in Ids |-> 0], made |-> [k \in Ids |-> 0],
     bodies |-> [k \in Ids |-> 0]]

PublishStart(e, given) ==
    /\ Idle
    /\ e \in DOMAIN rows
    /\ stack' = <<Frame(Load(e), 1)>>
    /\ sets' = <<given>>
    /\ call' = NewCall("publish", e, given)
    /\ UNCHANGED <<rows, links, nextId, queue, admin, logged, schema, edits, waiting>>

\* User code: a newly constructed draft that was never saved (pk None), with
\* publish_state as the constructor was given it, and
\* draft.publish(already_published).
PublishUnsaved(st, given) ==
    /\ Idle
    /\ LET inst == [NewPublic EXCEPT !.is_public = FALSE, !.publish_state = st]
       IN  /\ stack' = <<Frame(inst, 1)>>
           /\ call' = [NoCall EXCEPT !.op = "publish", !.status = "running",
                                     !.entry = inst, !.before = rows,
                                     !.linked = links, !.given = given]
    /\ sets' = <<given>>
    /\ UNCHANGED <<rows, links, nextId, queue, admin, logged, schema, edits, waiting>>

\* User code: instance.save(mark_changed) on a stored entity, after setting
\* field f of a draft to v (f = "id" stands for no edit).
Save(k, mark_changed, f, v) ==
    /\ Idle
    /\ k \in DOMAIN rows
    /\ edits < MaxEdits
    /\ \/ f = "id" /\ v = k
       \/ /\ IsDraft(k)
          /\ f \in Range(schema.fields)
          /\ IF f = "title" THEN v \in Titles
             ELSE v = None \/ IsDraft(v)
    /\ rows' = Store(rows, save(IF f = "id" THEN Load(k)
                                ELSE [Load(k) EXCEPT ![f] = v], mark_changed))
    /\ call' = [NoCall EXCEPT !.op = "save", !.target = k, !.mark_changed = mark_changed]
    /\ edits' = edits + 1
    /\ UNCHANGED <<links, nextId, stack, sets, queue, admin, logged, schema, waiting>>

\* User code: draft.<name> = linked, through the many-to-many manager of a
\* draft; the through table is written, the draft itself is not saved.
SetLinks(k, name, linked) ==
    /\ Idle
    /\ IsDraft(k)
    /\ edits < MaxEdits
    /\ name \in Range(schema.m2m)
    /\ IF PublishableM2M(name) THEN \A t \in linked : IsDraft(t)
       ELSE linked \subseteq SiteIds
    /\ links' = [links EXCEPT ![k][name] = linked]
    /\ call' = [NoCall EXCEPT !.op = "set"]
    /\ edits' = edits + 1
    /\ UNCHANGED <<rows, nextId, stack, sets, queue, admin, logged, schema, waiting>>

\* User code: instance.delete() on a stored entity.
Delete(k) ==
    /\ Idle
    /\ k \in DOMAIN rows
    /\ delete(k)
    /\ call' = [NoCall EXCEPT !.op = "delete", !.target = k]
    /\ UNCHANGED <<nextId, stack, sets, queue, admin, logged, schema, edits, waiting>>

Publish ==
    \/ PublishEnter \/ CopyField \/ SavePublic \/ CopyM2M
    \/ PublishRelated \/ SyncM2M \/ PublishReturn

----------------------------------------------------------------------------
(* publish_selected and unpublish_selected, actions.py lines 81-213 *)

\* publish(dry_run=True, all_published=...), line 104: the entities a publish
\* of the drafts of found would reach, nothing being stored.  A CHANGED
\* draft leads to the drafts its reference fields name, every draft to the
\* drafts its many-to-many fields to Publishable types link.
RECURSIVE DryRun(_)
DryRun(found) ==
    LET byField == {rows[k][f] : k \in {d \in found : rows[d].publish_state = PUBLISH_CHANGED},
                                 f \in {g \in Range(schema.fields) :
                                           PublishableFk(g) /\ g \notin excluded_fields(schema)}}
        byLink  == UNION {links[k][name] : k \in found,
                                           name \in {m \in Range(schema.m2m) :
                                              PublishableM2M(m) /\ m \notin excluded_fields(schema)}}
        more    == ((byField \cup byLink) \cap DOMAIN rows) \ found
    IN  IF more = {} THEN found ELSE DryRun(found \cup more)

\* lines 81-89: the instances of all_published the actor may not publish;
\* registered says whether admin_site._registry holds the type, permitted is
\* the set has_publish_permission answers True for.
_check_permissions(all_published, registered, permitted) ==
    {x \in all_published : registered /\ x \notin permitted}

\* (mutant) lines 110-111 left out: lacking permissions do not stop the commit
PublishDenied_Unchecked(post, perms_needed) == FALSE

\* lines 109-111: the confirmed request is refused
PublishDenied(post, perms_needed) == post /\ perms_needed # {}

\* (mutant) line 109 left out: the batch is published without confirmation
PublishCommits_Unconfirmed(post, batch) == batch # {}

\* lines 113-114: the confirmed request is carried out
PublishCommits(post, batch) == post /\ batch # {}

LogEntries(objs, message) == [n \in 1..Len(objs) |-> [obj |-> objs[n], message |-> message]]

\* lines 97-145
publish_selected(batch, post, registered, permitted) ==
    LET all_published == DryRun(batch)
        perms_needed  == _check_permissions(all_published, registered, permitted)
        request == [n |-> admin.n + 1, action |-> "publish_selected", batch |-> batch, post |-> post,
                    all_published |-> all_published, perms_needed |-> perms_needed,
                    protected |-> {}, response |-> "running"]
    IN  /\ Idle
        /\ admin.n < MaxRequests
        /\ \A k \in batch : IsDraft(k)
        /\ batch \cap HeldLocks(waiting.admin) = {}
        /\ permitted \subseteq all_published
        /\ call' = NoCall
        /\ IF PublishDenied(post, perms_needed)
           THEN /\ admin' = [request EXCEPT !.response = "PermissionDenied"]
                /\ UNCHANGED <<queue, logged, sets>>
           ELSE IF PublishCommits(post, batch)
           THEN /\ admin' = request
                /\ logged' = LogEntries(SetToSeq(all_published), "Published")
                /\ queue' = SetToSeq(batch)
                /\ sets' = <<{}>>
           ELSE /\ admin' = [request EXCEPT !.response = "preview"]
                /\ UNCHANGED <<queue, logged, sets>>
        /\ UNCHANGED <<rows, links, nextId, stack, schema, edits, waiting>>

\* queryset.publish(), line 118: the next draft of the batch is published,
\* the whole batch working on one already_published set.
PublishQueued ==
    /\ stack = <<>> /\ queue # <<>>
    /\ IF Head(queue) \in DOMAIN rows
       THEN /\ stack' = <<Frame(Load(Head(queue)), 1)>>
            /\ call' = NewCall("publish", Head(queue), sets[1])
       ELSE UNCHANGED <<stack, call>>
    /\ queue' = Tail(queue)
    /\ UNCHANGED <<rows, links, nextId, sets, admin, logged, schema, edits, waiting>>

\* obj.unpublish(dry_run=True), line 156: the public instance of the draft
all_unpublished(batch) == {rows[k].public : k \in batch} \ {None}

\* obj.unpublish(), line 177, for the drafts of seq in turn: the draft's
\* public is cleared and its public instance deleted (with the rows the
\* deletion cascades to); deleting an instance that has protected
\* dependents raises ProtectedError.
RECURSIVE Unpublish(_, _, _, _)
Unpublish(seq, tbl, lnk, prot) ==
    IF seq = <<>> THEN [rows |-> tbl, links |-> lnk, error |-> "none"]
    ELSE LET k == Head(seq)
         IN  IF k \notin DOMAIN tbl \/ tbl[k].public = None
             THEN Unpublish(Tail(seq), tbl, lnk, prot)
             ELSE IF tbl[k].public \in prot
             THEN [rows |-> tbl, links |-> lnk, error |-> "ProtectedError"]
             ELSE LET cleared == Store(tbl, save([tbl[k] EXCEPT !.public = None], FALSE))
                      gone    == Collect(cleared, {tbl[k].public})
                  IN  Unpublish(Tail(seq),
                                [r \in DOMAIN cleared \ gone |-> cleared[r]],
                                [r \in DOMAIN cleared \ gone |->
                                    [name \in M2MNames |->
                                        IF name = "authors" THEN lnk[r][name] \ gone
                                        ELSE lnk[r][name]]],
                                prot)

\* lines 170-172: the confirmed request is refused
UnpublishDenied(post, perms_needed, protected) == post /\ perms_needed # {}

\* lines 174-175: the confirmed request is carried out
UnpublishCommits(post, found) == post /\ found # {}

\* line 179 passes the builtin object, not the instance, to log_publication
BuiltinObject == -2

\* lines 148-213; protected is what get_deleted_objects reports: the public
\* instances that have protected dependents.
unpublish_selected(batch, post, registered, permitted, protected) ==
    LET found        == all_unpublished(batch)
        perms_needed == _check_permissions(found, registered, permitted)
        request == [n |-> admin.n + 1, action |-> "unpublish_selected", batch |-> batch, post |-> post,
                    all_published |-> found, perms_needed |-> perms_needed,
                    protected |-> protected, response |-> "running"]
        done == Unpublish(SetToSeq(batch), rows, links, protected)
    IN  /\ Idle
        /\ admin.n < MaxRequests
        /\ \A k \in batch : IsDraft(k)
        /\ batch \cap HeldLocks(waiting.admin) = {}
        /\ permitted \subseteq found
        /\ protected \subseteq found
        /\ call' = NoCall
        /\ IF UnpublishDenied(post, perms_needed, protected)
           THEN /\ admin' = [request EXCEPT !.response = "PermissionDenied"]
                /\ UNCHANGED <<rows, links, logged>>
           ELSE IF UnpublishCommits(post, found)
           THEN /\ rows' = done.rows
                /\ links' = done.links
                /\ logged' = LogEntries([n \in 1..Cardinality(found \ DOMAIN done.rows)
                                            |-> BuiltinObject], "Unpublished")
                /\ admin' = [request EXCEPT !.response =
                                IF done.error = "none" THEN "done" ELSE done.error]
           ELSE /\ admin' = [request EXCEPT !.response = "preview"]
                /\ UNCHANGED <<rows, links, logged>>
        /\ UNCHANGED <<nextId, stack, sets, queue, schema, edits, waiting>>

----------------------------------------------------------------------------
(* Specifications *)

\* The sets a caller passes as already_published: none (a new empty set),
\* or a set that holds the entity already.
CallerSets(e) == {{}, {e}}

\* Drafts 1..NumDrafts as Model.save() stored them: CHANGED after save(),
\* DEFAULT after save(mark_changed=False); no draft is published yet.
InitRows(sch, Targets, Linked) ==
    /\ schema = sch
    /\ \E st \in [DraftIds -> {PUBLISH_DEFAULT, PUBLISH_CHANGED}],
          p \in [DraftIds -> IF "parent" \in Range(sch.fields) THEN Targets ELSE {None}],
          o \in [DraftIds -> IF "other" \in Range(sch.fields) THEN Targets ELSE {None}],
          a \in [DraftIds -> IF "authors" \in Range(sch.m2m) THEN Linked ELSE {{}}],
          s \in [DraftIds -> IF "sites" \in Range(sch.m2m) THEN SUBSET SiteIds ELSE {{}}] :
          /\ rows = [d \in DraftIds |-> NewDraft(d, st[d], 1, p[d], o[d])]
          /\ links = [d \in DraftIds |->
                         [NoLinks EXCEPT !["authors"] = a[d], !["sites"] = s[d]]]
    /\ nextId = NumDrafts + 1
    /\ stack = <<>>
    /\ sets = <<>>
    /\ call = NoCall
    /\ queue = <<>>
    /\ admin = NoAdmin
    /\ logged = <<>>
    /\ edits = 0
    /\ waiting = NoContext

Init ==
    \E sch \in {SchemaFk, SchemaAuthors, SchemaSites} :
        InitRows(sch, DraftIds \cup {None}, SUBSET DraftIds)

Next ==
    \/ \E e \in DOMAIN rows : \E given \in CallerSets(e) : PublishStart(e, given)
    \/ \E st \in {PUBLISH_DEFAULT, PUBLISH_CHANGED}, given \in {{}, DOMAIN rows} :
          PublishUnsaved(st, given)
    \/ Publish
    \/ \E k \in DOMAIN rows, mc \in BOOLEAN, f \in {"id"} \cup Range(schema.fields),
          v \in DOMAIN rows \cup Titles \cup {None} : Save(k, mc, f, v)
    \/ \E k \in DOMAIN rows, name \in Range(schema.m2m),
          linked \in SUBSET (DOMAIN rows \cup SiteIds) : SetLinks(k, name, linked)
    \/ \E k \in DOMAIN rows : Delete(k)

Spec == Init /\ [][Next]_vars

\* The diamond: drafts 1..4 with 1 -> 2, 1 -> 3, 2 -> 4 and 3 -> 4 through
\* the reference fields, stored by save() or save(mark_changed=False) and
\* not published yet; only publish is called.
InitDiamond ==
    /\ schema = SchemaDiamond
    /\ \E st \in [1..4 -> {PUBLISH_DEFAULT, PUBLISH_CHANGED}] :
          rows = [d \in 1..4 |->
                    NewDraft(d, st[d], 1,
                             IF d = 1 THEN 2 ELSE IF d \in {2, 3} THEN 4 ELSE None,
                             IF d = 1 THEN 3 ELSE None)]
    /\ links = [d \in 1..4 |-> NoLinks]
    /\ nextId = 5
    /\ stack = <<>>
    /\ sets = <<>>
    /\ call = NoCall
    /\ queue = <<>>
    /\ admin = NoAdmin
    /\ logged = <<>>
    /\ edits = 0
    /\ waiting = NoContext

NextDiamond ==
    \/ \E e \in 1..4 : PublishStart(e, {})
    \/ PublishEnter \/ CopyField \/ SavePublic \/ PublishReturn

SpecDiamond == InitDiamond /\ [][NextDiamond]_vars

\* The admin actions, on drafts that reference and link the second draft.
InitAdmin == InitRows(SchemaMixed, {None, 2}, {{}, {2}})

NextAdmin ==
    \/ \E e \in DOMAIN rows : admin.n = 0 /\ PublishStart(e, {})
    \/ Publish
    \/ PublishQueued
    \/ \E batch \in SUBSET {k \in DraftIds : IsDraft(k)}, post \in BOOLEAN, registered \in BOOLEAN :
          \E permitted \in SUBSET DryRun(batch) :
              publish_selected(batch, post, registered, permitted)
    \/ \E batch \in SUBSET {k \in DraftIds : IsDraft(k)}, post \in BOOLEAN, registered \in BOOLEAN :
          \E permitted \in SUBSET all_unpublished(batch),
             protected \in SUBSET all_unpublished(batch) :
              unpublish_selected(batch, post, registered, permitted, protected)

SpecAdmin == InitAdmin /\ [][NextAdmin]_vars

\* Two requests at once: the scheduler lets the other request run; each has
\* a call stack, already_published sets and a response of its own, the
\* tables are shared.
Switch ==
    /\ waiting' = [stack |-> stack, sets |-> sets, queue |-> queue,
                   call |-> call, admin |-> admin]
    /\ stack' = waiting.stack
    /\ sets' = waiting.sets
    /\ queue' = waiting.queue
    /\ call' = waiting.call
    /\ admin' = waiting.admin
    /\ UNCHANGED <<rows, links, nextId, logged, schema, edits>>

\* Drafts 1 and 2 both name draft 3 through parent; nothing is published.
InitRace ==
    /\ schema = SchemaFk
    /\ \E st \in [1..3 -> {PUBLISH_DEFAULT, PUBLISH_CHANGED}] :
          rows = [d \in 1..3 |-> NewDraft(d, st[d], 1, IF d = 3 THEN None ELSE 3, None)]
    /\ links = [d \in 1..3 |-> NoLinks]
    /\ nextId = 4
    /\ stack = <<>>
    /\ sets = <<>>
    /\ call = NoCall
    /\ queue = <<>>
    /\ admin = NoAdmin
    /\ logged = <<>>
    /\ edits = 0
    /\ waiting = NoContext

\* Two confirmed publish_selected requests of permitted actors, each on a
\* batch of one of the drafts 1 and 2, run at once.
NextRace ==
    \/ \E batch \in {{1}, {2}} : publish_selected(batch, TRUE, TRUE, DryRun(batch))
    \/ PublishQueued
    \/ PublishEnter \/ CopyField \/ SavePublic \/ PublishReturn
    \/ Switch

SpecRace == InitRace /\ [][NextRace]_vars

----------------------------------------------------------------------------
(* Properties *)

\* A top-level draft.publish() of user code (already_published left None)
\* on a stored draft has returned.
PublishReturned ==
    /\ call.op = "publish" /\ call.status = "returned"
    /\ call.given = {} /\ ~call.entry.is_public

\* The public equivalent of what a reference field of a draft holds.
PublicOf(x) == IF x = None THEN None ELSE rows[x].public

\* Every copied column of d's public row holds the public equivalent of d's.
FieldsSynced(d) ==
    \A f \in Range(schema.fields) \ excluded_fields(schema) :
        rows[rows[d].public][f] =
            IF PublishableFk(f) THEN PublicOf(rows[d][f]) ELSE rows[d][f]

\* Every copied many-to-many field of d's public row links the public
\* equivalents of what d links.
LinksSynced(d) ==
    \A name \in Range(schema.m2m) \ excluded_fields(schema) :
        links[rows[d].public][name] =
            IF PublishableM2M(name) THEN {rows[x].public : x \in links[d][name]}
            ELSE links[d][name]

\* C1: after a top-level publish of a stored draft has returned, the draft
\* is DEFAULT and its public names a stored row whose copied columns equal
\* the draft's (references mapped to the public rows of the drafts named).
C1_PublishSyncsMirror ==
    PublishReturned =>
        /\ rows[call.target].publish_state = PUBLISH_DEFAULT
        /\ rows[call.target].public \in DOMAIN rows
        /\ FieldsSynced(call.target)

\* Drafts a and b named each other through parent, both CHANGED, when the
\* top-level publish of a began.
MutualCycle(a, b) ==
    /\ a # b /\ schema = SchemaFk
    /\ {a, b} \subseteq DOMAIN call.before
    /\ call.before[a].parent = b /\ call.before[b].parent = a
    /\ call.before[a].publish_state = PUBLISH_CHANGED
    /\ call.before[b].publish_state = PUBLISH_CHANGED
    /\ ~call.before[a].is_public /\ ~call.before[b].is_public

\* C2: after publish(A) on A <-> B, both CHANGED, the public row of A names
\* the public row of B, that of B names that of A, and the field copy of
\* each ran exactly once.
C2_CycleMirrorsReferenceEachOther ==
    \A b \in DOMAIN rows :
        (PublishReturned /\ MutualCycle(call.target, b)) =>
            /\ rows[call.target].public \in DOMAIN rows
            /\ rows[b].public \in DOMAIN rows
            /\ rows[rows[call.target].public].parent = rows[b].public
            /\ rows[rows[b].public].parent = rows[call.target].public
            /\ call.copies[call.target] = 1
            /\ call.copies[b] = 1

\* C3: a top-level publish comes to an end on every graph of stored drafts:
\* the recursion never nests until the interpreter's stack is used up.
C3_PublishTerminates == call.status # "RecursionError"

\* C9: what a top-level publish of a stored draft returns is a stored
\* public row.
C9_ReturnsStoredMirror ==
    PublishReturned => (call.ret \in DOMAIN rows /\ rows[call.ret].is_public)

PublicRows == {m \in DOMAIN rows : rows[m].is_public}

\* C8: after publish(A) on the diamond A -> B, A -> C, B -> D, C -> D there
\* is one public row for D, and the public rows of B and of C name it.
C8_DiamondSharesOneMirror ==
    (PublishReturned /\ call.target = 1) =>
        /\ {rows[2].public, rows[3].public, rows[4].public} \subseteq PublicRows
        /\ rows[rows[2].public].parent = rows[4].public
        /\ rows[rows[3].public].parent = rows[4].public
        /\ Cardinality(PublicRows) = 4

\* C10: publish entered on a public entity raises ValueError, and that
\* step changes no row, no link, no primary key and no already_published set.
C10_PublicEntityRejected ==
    [][(stack # <<>> /\ Top.pc = "enter" /\ Top.me.is_public) =>
          /\ call'.status = "ValueError"
          /\ stack' = <<>>
          /\ rows' = rows /\ links' = links /\ nextId' = nextId
          /\ sets' = sets]_vars

\* C10 happens: a publish on a public entity ended in ValueError with the
\* caller's non-empty set as it was given.
C10_Witness ==
    /\ call.op = "publish" /\ call.status = "ValueError"
    /\ call.entry.is_public
    /\ call.given # {} /\ sets = <<call.given>>
    /\ rows = call.before /\ links = call.linked

\* The step is an admin request.
Requested == admin'.n # admin.n

StorageUntouched ==
    /\ rows' = rows /\ links' = links /\ nextId' = nextId
    /\ stack' = <<>> /\ queue' = <<>>

C6_BlockedUnpublishStoresNothing ==
    [][(Requested /\ admin'.action = "unpublish_selected" /\ admin'.post
           /\ (admin'.perms_needed # {} \/ admin'.protected # {})) =>
          (rows' = rows /\ links' = links)]_vars

\* C11: publish entered on a draft that was never saved fails on the
\* assertion of line 73, and that step stores no row, hands out no primary
\* key and leaves every already_published set as it was.
C11_UnsavedDraftRejected ==
    [][(stack # <<>> /\ Top.pc = "enter" /\ ~Top.me.is_public /\ Top.me.pk = None) =>
          /\ call'.status = "AssertionError"
          /\ stack' = <<>>
          /\ rows' = rows /\ links' = links /\ nextId' = nextId
          /\ sets' = sets]_vars

\* C11 happens: the publish of an unsaved CHANGED draft ended in
\* AssertionError with the caller's non-empty set as it was given.
C11_Witness ==
    /\ call.op = "publish" /\ call.status = "AssertionError"
    /\ call.entry.pk = None /\ ~call.entry.is_public
    /\ call.entry.publish_state = PUBLISH_CHANGED
    /\ call.given # {} /\ sets = <<call.given>>
    /\ rows = call.before /\ links = call.linked

\* C12, first publish: a CHANGED draft without public row gets one new
\* public row with the draft's value and is left DEFAULT.
FirstPublishCreates ==
    (PublishReturned /\ call.entry.publish_state = PUBLISH_CHANGED
        /\ call.entry.public = None) =>
        /\ rows[call.target].public \in DOMAIN rows \ DOMAIN call.before
        /\ rows[rows[call.target].public].is_public
        /\ call.made[call.target] = 1
        /\ "title" \in Range(schema.fields) =>
              rows[rows[call.target].public].title = call.entry.title
        /\ rows[call.target].publish_state = PUBLISH_DEFAULT

\* C12, save: save() of a draft with an edited scalar field leaves it CHANGED.
EditedSaveMarks ==
    (call'.op = "save" /\ call'.mark_changed /\ call'.target \in DOMAIN rows
        /\ ~rows[call'.target].is_public /\ edits' # edits) =>
        rows'[call'.target].publish_state = PUBLISH_CHANGED

\* C12, second publish: a CHANGED draft with a public row keeps that row as
\* its public; the row gets the draft's value, no other row is made for the
\* draft, and the draft is left DEFAULT.
SecondPublishUpdates ==
    (PublishReturned /\ call.entry.publish_state = PUBLISH_CHANGED
        /\ call.entry.public # None) =>
        /\ rows[call.target].public = call.entry.public
        /\ call.entry.public \in DOMAIN rows
        /\ call.made[call.target] = 0
        /\ "title" \in Range(schema.fields) =>
              rows[call.entry.public].title = call.entry.title
        /\ rows[call.target].publish_state = PUBLISH_DEFAULT

\* C12: publish, save with an edited scalar field, publish: the first
\* publish makes the public row with the draft's value and leaves the draft
\* DEFAULT, the save makes the draft CHANGED, the second publish writes the
\* new value to the same public row and leaves the draft DEFAULT.
C12_EditedDraftRepublished ==
    /\ [](FirstPublishCreates /\ SecondPublishUpdates)
    /\ [][EditedSaveMarks]_vars

\* C12 happens: the second publish returned for a draft whose public row
\* held another title than the edited draft, and the row has the new title.
C12_Witness ==
    /\ PublishReturned
    /\ call.entry.publish_state = PUBLISH_CHANGED
    /\ call.entry.public \in DOMAIN call.before
    /\ call.before[call.entry.public].title # call.entry.title
    /\ rows[call.entry.public].title = call.entry.title
    /\ rows[call.target].public = call.entry.public
    /\ rows[call.target].publish_state = PUBLISH_DEFAULT

\* The step is draft.delete() of user code on a stored draft.
DraftDeleted ==
    /\ call'.op = "delete" /\ rows' # rows
    /\ call'.target \in DOMAIN rows /\ ~rows[call'.target].is_public

\* C13: deleting a draft removes the draft; its public row, if it has one,
\* stays stored as a public row with publish_state DELETE; if it has none,
\* the draft is the only row removed and no other row changes.
C13_DeleteMarksMirror ==
    [][DraftDeleted =>
          LET k == call'.target
              m == rows[k].public
          IN  /\ k \notin DOMAIN rows'
              /\ m # None =>
                    /\ m \in DOMAIN rows'
                    /\ rows'[m].publish_state = PUBLISH_DELETE
                    /\ rows'[m].is_public
              /\ m = None =>
                    /\ DOMAIN rows' = DOMAIN rows \ {k}
                    /\ \A r \in DOMAIN rows' : rows'[r] = rows[r]]_vars

\* C14: a top-level publish of a DEFAULT draft that has a public row skips
\* the field copy: the public row is stored as it was, the draft stays
\* DEFAULT and keeps its public, so the next publish starts from the same.
C14_SyncedPublishKeepsMirror ==
    (PublishReturned /\ call.entry.publish_state = PUBLISH_DEFAULT
        /\ call.entry.public # None) =>
        /\ call.entry.public \in DOMAIN rows
        /\ rows[call.entry.public] = call.before[call.entry.public]
        /\ rows[call.target].publish_state = PUBLISH_DEFAULT
        /\ rows[call.target].public = call.entry.public
        /\ call.copies[call.target] = 0

\* C14 happens: the DEFAULT draft held another title than its public row
\* (stored with mark_changed = False), and the publish returned.
C14_Witness ==
    /\ PublishReturned
    /\ call.entry.publish_state = PUBLISH_DEFAULT
    /\ call.entry.public \in DOMAIN rows
    /\ rows[call.entry.public].title # call.entry.title
    /\ rows[call.target] = call.entry

\* The value of column f of a row ("id" is the primary key).
Column(r, f) == IF f = "id" THEN r.pk ELSE r[f]

\* The exclusion set of the type: the base set and the names the type adds.
ExclusionSet == {"id", "is_public", "publish_state", "public"} \cup schema.exclude

\* C15: no step of publish writes an excluded field of a public row: an
\* excluded column (id, is_public, publish_state, public and the type's own)
\* and an excluded many-to-many field of a stored public row stay as they
\* are, and a public row publish stores anew has them as constructed.
C15_ExcludedFieldsNotCopied ==
    [][stack # <<>> =>
          \A m \in DOMAIN rows' :
              rows'[m].is_public =>
                  /\ \A f \in Range(MetaFields(schema)) \cap ExclusionSet :
                        Column(rows'[m], f) =
                            IF m \in DOMAIN rows THEN Column(rows[m], f)
                            ELSE IF f = "id" THEN m ELSE NewPublic[f]
                  /\ \A name \in Range(schema.m2m) \cap ExclusionSet :
                        links'[m][name] =
                            IF m \in DOMAIN rows THEN links[m][name] ELSE {}]_vars

\* C15 happens: a CHANGED draft with links in the excluded field log was
\* published, fields and other links copied, and its public row has none.
C15_Witness ==
    /\ PublishReturned
    /\ "log" \in ExclusionSet
    /\ call.entry.publish_state = PUBLISH_CHANGED
    /\ call.copies[call.target] = 1
    /\ rows[call.target].public \in DOMAIN rows
    /\ links[call.target]["log"] # {}
    /\ links[rows[call.target].public]["log"] = {}
    /\ links[rows[call.target].public]["sites"] = links[call.target]["sites"]
    /\ links[call.target]["sites"] # {}

\* C16: with two publish_selected requests running at once on batches that
\* share a related draft, no draft gets two public rows: every stored public
\* row is the public of a draft, none is left behind by an overwritten link.
C16_LocksKeepOneMirror ==
    \A m \in PublicRows : \E d \in DOMAIN rows : ~rows[d].is_public /\ rows[d].public = m

\* C17: every publish call of one call tree works on the already_published
\* set of the top-level call, and no entity gets past the check of line 79
\* more than once in one top-level call.
C17_VisitedSetShared ==
    /\ \A n \in DOMAIN stack : stack[n].ap = 1
    /\ \A k \in Ids : call.bodies[k] <= 1

\* The step is instance.save(mark_changed) of user code on a stored entity.
Saved == call'.op = "save" /\ edits' # edits /\ call'.target \in DOMAIN rows

\* C18, save: save() leaves a draft CHANGED whatever it was,
\* save(mark_changed=False) leaves a draft's publish_state as it is, and a
\* save of a public entity leaves its publish_state as it is.
SaveMarksDraftsOnly ==
    Saved =>
        LET k == call'.target
        IN  rows'[k].publish_state =
                IF ~rows[k].is_public /\ call'.mark_changed THEN PUBLISH_CHANGED
                ELSE rows[k].publish_state

\* C18, invariant: no stored public entity is CHANGED.
ChangedIsDraft ==
    \A k \in DOMAIN rows : rows[k].publish_state = PUBLISH_CHANGED => ~rows[k].is_public

\* C18: save marks drafts and only drafts CHANGED, unless told not to, and
\* in every state that save, publish and delete reach a CHANGED entity is a
\* draft.
C18_OnlyDraftsAreChanged ==
    /\ []ChangedIsDraft
    /\ [][SaveMarksDraftsOnly]_vars

\* C18 happens: save() made a published draft, DEFAULT before, CHANGED,
\* and its public row is stored and not CHANGED.
C18_Witness ==
    /\ call.op = "save" /\ call.mark_changed
    /\ call.target \in DOMAIN rows
    /\ ~rows[call.target].is_public
    /\ rows[call.target].publish_state = PUBLISH_CHANGED
    /\ rows[call.target].public \in DOMAIN rows
    /\ rows[rows[call.target].public].publish_state = PUBLISH_DEFAULT

\* C19, the link: the public of a draft is unset or names a stored public
\* entity, and no two drafts name the same one.
PublicLinkExclusive ==
    \A d \in DOMAIN rows :
        (~rows[d].is_public /\ rows[d].public # None) =>
            /\ rows[d].public \in DOMAIN rows
            /\ rows[rows[d].public].is_public
            /\ \A e \in DOMAIN rows :
                  (~rows[e].is_public /\ rows[e].public = rows[d].public) => e = d

\* C19, is_public: no step changes is_public of a stored entity.
IsPublicKept ==
    \A k \in DOMAIN rows \cap DOMAIN rows' : rows'[k].is_public = rows[k].is_public

\* C19: in every state that save, publish and delete reach, a draft's public
\* is unset or names a stored public entity that no other draft names, and
\* is_public of a stored entity never changes.
C19_PublicLinkOneToOne ==
    /\ []PublicLinkExclusive
    /\ [][IsPublicKept]_vars

\* C19 happens: two drafts have a public row each, and the publish that
\* just returned was of an edited draft that had its public row before.
C19_Witness ==
    /\ PublishReturned
    /\ call.entry.publish_state = PUBLISH_CHANGED
    /\ call.entry.public # None
    /\ \E d, e \in DOMAIN rows :
          /\ d # e /\ ~rows[d].is_public /\ ~rows[e].is_public
          /\ rows[d].public # None /\ rows[e].public # None

\* C20: no stored public row names a draft: a reference field to a
\* Publishable type on a public row is empty or names a stored public row,
\* and so does every link of its many-to-many fields to Publishable types.
C20_MirrorsNameMirrors ==
    \A m \in PublicRows :
        /\ \A f \in {g \in Range(schema.fields) : PublishableFk(g)} :
              rows[m][f] = None \/ (rows[m][f] \in DOMAIN rows /\ rows[rows[m][f]].is_public)
        /\ \A name \in {n \in Range(schema.m2m) : PublishableM2M(n)} :
              \A x \in links[m][name] : x \in DOMAIN rows /\ rows[x].is_public

\* C20 happens: a stored public row names a public row through its
\* reference field and links one through its many-to-many field.
C20_Witness ==
    \E m \in PublicRows :
        /\ rows[m].parent \in PublicRows
        /\ links[m]["authors"] # {}
        /\ links[m]["authors"] \subseteq PublicRows

====
